---- MODULE Spec2Model ----
(***************************************************************************)
(* A model of feinsum's normalizer (normalization.py) and of its transform *)
(* archive (database.py).                                                  *)
(*                                                                         *)
(* Text is modelled as a sequence of atoms.  An atom is a string: the      *)
(* single quote "'", the newline "\n", one of the SQL punctuation marks    *)
(* "(", ")", ",", or a word (any other string, free of those characters).  *)
(***************************************************************************)
EXTENDS Integers, Sequences, FiniteSets, TLC

VARIABLES
    nin,      \* normalizer harness: the einsum handed to normalize_einsum
    nout,     \* normalizer harness: result of normalize_einsum(nin)
    nout2,    \* normalizer harness: result of normalizing nout's einsum again
    niso,     \* normalizer harness: result of normalizing a renamed copy of nin
    nren,     \* normalizer harness: what the renaming changed
    npc,      \* normalizer harness: which applications have been made
    call,     \* the record() call in flight or last finished: arguments, locals, position
    db,       \* the archive file: table name -> rows, or absent
    ncalls,   \* number of record() calls started so far
    calls,    \* concurrent callers: the record() call of each process
    overlap   \* concurrent callers: a call began while another was in flight

vars == <<nin, nout, nout2, niso, nren, npc, call, db, ncalls, calls, overlap>>
normVars == <<nin, nout, nout2, niso, nren, npc>>
recVars == <<call, db, ncalls>>
raceVars == <<calls, overlap>>

----------------------------------------------------------------------------
(* Generic helpers *)

Min(a, b) == IF a < b THEN a ELSE b

RECURSIVE ConcatAll(_)
ConcatAll(ss) == IF ss = <<>> THEN <<>> ELSE Head(ss) \o ConcatAll(Tail(ss))

(* A Python dict: a sequence of [key, val] items in insertion order. *)
DictHas(d, k) == \E i \in 1..Len(d) : d[i].key = k

DictGet(d, k) == d[CHOOSE i \in 1..Len(d) : d[i].key = k].val

DictSet(d, k, v) ==
    IF DictHas(d, k)
    THEN [i \in 1..Len(d) |-> IF d[i].key = k THEN [key |-> k, val |-> v] ELSE d[i]]
    ELSE Append(d, [key |-> k, val |-> v])

DictKeys(d) == {d[i].key : i \in 1..Len(d)}

----------------------------------------------------------------------------
(* The einsum data model *)

IntDim(v) == [k |-> "int", v |-> v, n |-> ""]

SizeParam(name) == [k |-> "param", v |-> 0, n |-> name]

FreeAxis(i) == [kind |-> "free", i |-> i]

SummationAxis(i) == [kind |-> "sum", i |-> i]

FusedEinsum(shapes, v2d, acc, um, names) ==
    [arg_shapes |-> shapes, value_to_dtype |-> v2d, access_descriptors |-> acc,
     use_matrix |-> um, index_names |-> names]

(* (index, dim) of every operand axis, operand by operand. *)
AccessPairs(e) ==
    ConcatAll([a \in 1..Len(e.arg_shapes) |->
                 [d \in 1..Len(e.arg_shapes[a]) |->
                    [idx |-> e.access_descriptors[a][d], dim |-> e.arg_shapes[a][d]]]])

(* FusedEinsum.index_to_dim_length(): index -> length as a dict filled while
   walking the operands: a key stands where its index is first met and holds
   the length met last. *)
index_to_dim_length(e) ==
    LET pairs  == AccessPairs(e)
        n      == Len(pairs)
        firsts == {p \in 1..n : \A q \in 1..(p - 1) : pairs[q].idx # pairs[p].idx}
        before == [p \in firsts |-> Cardinality({q \in firsts : q < p})]
        nth(k) == CHOOSE p \in firsts : before[p] = k - 1
        last(ix) == CHOOSE p \in 1..n :
                       pairs[p].idx = ix /\ \A q \in (p + 1)..n : pairs[q].idx # ix
    IN  [k \in 1..Cardinality(firsts) |->
           [key |-> pairs[nth(k)].idx, val |-> pairs[last(pairs[nth(k)].idx)].dim]]

(* FusedEinsum.ndim: the number of free axes. *)
ndim(e) == Cardinality({k \in DictKeys(index_to_dim_length(e)) : k.kind = "free"})

----------------------------------------------------------------------------
(* normalize_einsum.  The operators below take the function's locals they
   read: itd is einsum.index_to_dim_length(), i2n is index_to_new_name. *)

NLetters == 26

Letters == <<"a", "b", "c", "d", "e", "f", "g", "h", "i", "j", "k", "l", "m",
             "n", "o", "p", "q", "r", "s", "t", "u", "v", "w", "x", "y", "z">>

nfree_indices(e) == ndim(e)

nredn_indices(itd) == Cardinality({i \in 1..Len(itd) : itd[i].key.kind = "sum"})

sorted_axes(nfree, nredn) ==
    [i \in 1..nfree |-> FreeAxis(i - 1)] \o [i \in 1..nredn |-> SummationAxis(i - 1)]

(* for idx, ichr in zip(sorted_axes, range(97, 123)): index_to_new_name[idx] = chr(ichr) *)
index_to_new_name(sa) ==
    LET n == Min(Len(sa), NLetters)
    IN  [ax \in {sa[i] : i \in 1..n} |-> Letters[CHOOSE i \in 1..n : sa[i] = ax]]

(* The cells of use_matrix in the order the double loop visits them. *)
UseCells(e) == ConcatAll(e.use_matrix)

(* The first cell the loop cannot handle, 0 when there is none. *)
FirstBadCell(e) ==
    LET cells == UseCells(e)
        bad   == {i \in 1..Len(cells) : Cardinality(cells[i]) # 1}
    IN  IF bad = {} THEN 0 ELSE CHOOSE i \in bad : \A j \in bad : i <= j

(* len(values) > 1 raises NotImplementedError; `old_value, = values` raises
   ValueError on an empty cell. *)
UseWalkStatus(e) ==
    LET i == FirstBadCell(e)
    IN  IF i = 0 THEN "ok"
        ELSE IF Cardinality(UseCells(e)[i]) > 1 THEN "NotImplementedError"
        ELSE "ValueError"

ArgName(k) == "arg_" \o ToString(k)

(* old_value_to_new_value.setdefault(old_value, f"arg_{len(old_value_to_new_value)}") *)
SetDefaultArg(d, old) == IF DictHas(d, old) THEN d ELSE DictSet(d, old, ArgName(Len(d)))

RECURSIVE WalkCells(_, _)
WalkCells(cells, d) ==
    IF cells = <<>> THEN d
    ELSE WalkCells(Tail(cells), SetDefaultArg(d, CHOOSE v \in Head(cells) : TRUE))

(* Mutant: the values keep the names the caller gave them. *)
old_value_to_new_value_unrenamed(e) ==
    LET d == WalkCells(UseCells(e), <<>>)
    IN  [i \in 1..Len(d) |-> [key |-> d[i].key, val |-> d[i].key]]

old_value_to_new_value(e) == WalkCells(UseCells(e), <<>>)

new_use_matrix(e) ==
    LET o2n == old_value_to_new_value(e)
    IN  [r \in 1..Len(e.use_matrix) |->
           [c \in 1..Len(e.use_matrix[r]) |->
              {DictGet(o2n, CHOOSE v \in e.use_matrix[r][c] : TRUE)}]]

(* old_value_to_new_value[old_val] raises KeyError for a value no cell uses. *)
ValueKeyError(e) ==
    \E old \in DOMAIN e.value_to_dtype : ~DictHas(old_value_to_new_value(e), old)

new_value_to_dtypes(e) ==
    LET o2n == old_value_to_new_value(e)
        olds == DOMAIN e.value_to_dtype
    IN  [nv \in {DictGet(o2n, old) : old \in olds} |->
           e.value_to_dtype[CHOOSE old \in olds : DictGet(o2n, old) = nv]]

NewSizeParam(i2n, idx) == SizeParam("N_" \o i2n[idx])

(* The dict comprehension of lines 52-56, as a function: one entry per
   SizeParam, and the last index carrying it decides its new name. *)
size_param_map(itd, i2n) ==
    LET carriers(p) == {i \in 1..Len(itd) : itd[i].val = p}
        lastOf(p)   == CHOOSE i \in carriers(p) : \A j \in carriers(p) : j <= i
    IN  [p \in {itd[i].val : i \in {j \in 1..Len(itd) : itd[j].val.k = "param"}} |->
           NewSizeParam(i2n, itd[lastOf(p)].key)]

IsNonIntegerFree(it) == it.key.kind = "free" /\ it.val.k # "int"

IsFree(it) == it.key.kind = "free"

non_integer_free_axes(itd) == SelectSeq(itd, IsNonIntegerFree)

(* sorted(s, key=lambda e: e[1], reverse=True): stable, so an item goes behind
   every longer one and behind the equally long ones that precede it in s. *)
SortedByLengthDesc(s) ==
    LET rank(i) == Cardinality({j \in 1..Len(s) : s[j].val.v > s[i].val.v})
                   + Cardinality({j \in 1..(i - 1) : s[j].val.v = s[i].val.v}) + 1
    IN  [r \in 1..Len(s) |-> s[CHOOSE i \in 1..Len(s) : rank(i) = r]]

integer_free_axes(itd) == SortedByLengthDesc(SelectSeq(itd, IsFree))

(* Mutant: the comparison of the two longest free axes is left out. *)
CollapseFires_ignoring_ties(itd) ==
    /\ Len(non_integer_free_axes(itd)) = 0
    /\ Len(integer_free_axes(itd)) > 1

(* The condition of lines 62 and 65 under which the longest free axis is replaced. *)
CollapseFires(itd) ==
    /\ Len(non_integer_free_axes(itd)) = 0
    /\ Len(integer_free_axes(itd)) > 1
    /\ integer_free_axes(itd)[1].val.v # integer_free_axes(itd)[2].val.v

old_size_param_to_new_size_param(itd, i2n) ==
    IF CollapseFires(itd)
    THEN (integer_free_axes(itd)[1].val :> NewSizeParam(i2n, integer_free_axes(itd)[1].key))
             @@ size_param_map(itd, i2n)
    ELSE size_param_map(itd, i2n)

new_arg_shapes(e, m) ==
    [a \in 1..Len(e.arg_shapes) |->
       [d \in 1..Len(e.arg_shapes[a]) |->
          IF e.arg_shapes[a][d] \in DOMAIN m THEN m[e.arg_shapes[a][d]]
          ELSE e.arg_shapes[a][d]]]

(* Mutant: the assertion counts the free indices only. *)
WithinLetterBudget_free_only(nfree, nredn) == nfree <= NLetters

(* assert nfree_indices + nredn_indices <= 26 *)
WithinLetterBudget(nfree, nredn) == nfree + nredn <= NLetters

NoEinsum == FusedEinsum(<<>>, <<>>, <<>>, <<>>, <<>>)

Raised(err) == [status |-> err, einsum |-> NoEinsum]

normalize_einsum(e) ==
    LET itd == index_to_dim_length(e)
        nfree == nfree_indices(e)
        nredn == nredn_indices(itd)
        i2n == index_to_new_name(sorted_axes(nfree, nredn))
    IN  IF ~WithinLetterBudget(nfree, nredn) THEN Raised("AssertionError")
        ELSE IF UseWalkStatus(e) # "ok" THEN Raised(UseWalkStatus(e))
        ELSE IF ValueKeyError(e) THEN Raised("KeyError")
        ELSE [status |-> "ok",
              einsum |-> FusedEinsum(
                  new_arg_shapes(e, old_size_param_to_new_size_param(itd, i2n)),
                  new_value_to_dtypes(e), e.access_descriptors, new_use_matrix(e), i2n)]

----------------------------------------------------------------------------
(* Text.  A text is a sequence of atoms; an atom is the single quote "'", the
   newline "\n", one of the SQL punctuation marks "(", ")", ",", or a word: a
   run of other characters.  The texts a caller passes in keep every quote,
   newline and punctuation mark as an atom of its own; the descriptions the
   program formats are words that only ever stand inside a string literal. *)

Quote == "'"

Newline == "\n"

(* str.replace(old, new): every atom equal to old gives way to the atoms of
   new (one or two of them). *)
Replace(text, old, new) ==
    LET n == Len(text)
        w(i) == IF text[i] = old THEN Len(new) ELSE 1
        off == [i \in 1..n |->
                  (i - 1) + (Len(new) - 1) * Cardinality({j \in 1..(i - 1) : text[j] = old})]
        total == IF n = 0 THEN 0 ELSE off[n] + w(n)
    IN  [j \in 1..total |->
           LET i == CHOOSE i \in 1..n : off[i] < j /\ j <= off[i] + w(i)
           IN  IF text[i] = old THEN new[j - off[i]] ELSE text[i]]

(* The SQL text of a string literal holding text verbatim: '<text>'. *)
Quoted(text) == <<Quote>> \o text \o <<Quote>>

----------------------------------------------------------------------------
(* sqlite: the VALUES clause of an INSERT statement, tokenized and parsed.
   Quotes pair up from the left; a closing quote directly followed by an
   opening one is an escaped quote inside one literal. *)

DigitWords == {ToString(d) : d \in 0..9}

SqlClass(stmt, quotes, i) ==
    LET qb == Cardinality({q \in quotes : q < i})
        nextq == (i + 1) \in quotes
        prevq == (i - 1) \in quotes
    IN  IF i \in quotes
        THEN IF qb % 2 = 0
             THEN (IF prevq THEN "esc2" ELSE "open")
             ELSE (IF nextq THEN "esc1" ELSE "close")
        ELSE IF qb % 2 = 1 THEN "content"
        ELSE IF stmt[i] = "(" THEN "lp"
        ELSE IF stmt[i] = ")" THEN "rp"
        ELSE IF stmt[i] = "," THEN "comma"
        ELSE IF stmt[i] \in DigitWords THEN "num"
        ELSE "bad"

(* Every atom of the statement with its position and its class. *)
SqlAnnotate(stmt) ==
    LET quotes == {i \in 1..Len(stmt) : stmt[i] = Quote}
    IN  [i \in 1..Len(stmt) |-> [a |-> stmt[i], i |-> i, c |-> SqlClass(stmt, quotes, i)]]

IsQuoteAtom(x) == x.a = Quote

IsBadToken(x) == x.c = "bad"

IsOuterToken(x) == x.c \in {"lp", "rp", "comma", "num", "open"}

IsValueToken(x) == x.c \in {"num", "open"}

IsLiteralContent(x) == x.c \in {"content", "esc1"}

IsRowOpen(x) == x.c = "lp"

(* The grammar ( value , value ... ) , ( value ... ) ... over the tokens
   outside literals of an annotated statement. *)
SqlWellFormed(ann) ==
    LET toks == SelectSeq(ann, IsOuterToken)
        n == Len(toks)
    IN  /\ Len(SelectSeq(ann, IsQuoteAtom)) % 2 = 0
        /\ Len(SelectSeq(ann, IsBadToken)) = 0
        /\ n >= 3
        /\ toks[1].c = "lp"
        /\ toks[n].c = "rp"
        /\ \A k \in 1..(n - 1) :
             /\ toks[k].c = "lp" => IsValueToken(toks[k + 1])
             /\ IsValueToken(toks[k]) => toks[k + 1].c \in {"comma", "rp"}
             /\ toks[k].c = "rp" => toks[k + 1].c = "comma"
             /\ toks[k].c = "comma" =>
                  \/ k > 1 /\ IsValueToken(toks[k - 1]) /\ IsValueToken(toks[k + 1])
                  \/ k > 1 /\ toks[k - 1].c = "rp" /\ toks[k + 1].c = "lp"

(* The value a value token stands for: a number as written, a literal's
   content with each escaped quote taken once. *)
SqlValueAt(ann, x) ==
    IF x.c = "num" THEN <<x.a>>
    ELSE LET close == CHOOSE q \in (x.i + 1)..Len(ann) :
                         ann[q].c = "close"
                         /\ \A r \in (x.i + 1)..(q - 1) : ann[r].c # "close"
             inner == SelectSeq(SubSeq(ann, x.i + 1, close - 1), IsLiteralContent)
         IN  [k \in 1..Len(inner) |-> inner[k].a]

(* The rows of a well-formed annotated VALUES clause, each a sequence of values. *)
SqlRows(ann) ==
    LET opens == SelectSeq(ann, IsRowOpen)
        rowEnd(r) == CHOOSE q \in (opens[r].i + 1)..Len(ann) :
                        ann[q].c = "rp" /\ \A m \in (opens[r].i + 1)..(q - 1) : ann[m].c # "rp"
        vals(r) == SelectSeq(SubSeq(ann, opens[r].i + 1, rowEnd(r) - 1), IsValueToken)
    IN  [r \in 1..Len(opens) |-> [k \in 1..Len(vals(r)) |-> SqlValueAt(ann, vals(r)[k])]]

----------------------------------------------------------------------------
(* The einsums the normalizer is applied to *)

F0 == FreeAxis(0)
F1 == FreeAxis(1)
F2 == FreeAxis(2)
S0 == SummationAxis(0)
S1 == SummationAxis(1)

LiteralOrSymbolic ==
    {IntDim(32), IntDim(64), IntDim(128), SizeParam("P"), SizeParam("N_a")}

SmallOrSymbolic == {IntDim(3), IntDim(35), SizeParam("P")}

(* Access descriptors with the lengths their indices may take:
   "ij,jk->ik", "ji,jk->ik", "ijk->ijk", "i->i" and the gradient einsum
   "xer,rij,ej->xei" of examples/dg_wave_3d_p4_experiements.py. *)
Templates ==
    { [acc |-> << <<F0, S0>>, <<S0, F1>> >>, dims |-> LiteralOrSymbolic],
      [acc |-> << <<S0, F0>>, <<S0, F1>> >>, dims |-> LiteralOrSymbolic],
      [acc |-> << <<F0, F1, F2>> >>, dims |-> LiteralOrSymbolic],
      [acc |-> << <<F0>> >>, dims |-> LiteralOrSymbolic],
      [acc |-> << <<F0, F1, S0>>, <<S0, F2, S1>>, <<F1, S1>> >>,
       dims |-> SmallOrSymbolic] }

AxesOf(acc) == UNION {{acc[a][d] : d \in 1..Len(acc[a])} : a \in 1..Len(acc)}

ShapesOf(acc, lens) ==
    [a \in 1..Len(acc) |-> [d \in 1..Len(acc[a]) |-> lens[acc[a][d]]]]

(* Largest number of indices of the one-operand einsums near the letter budget. *)
MaxIndices == 27

(* One operand over nf free and ns summation axes, the first axis of length
   first and all others of length 2. *)
WideAccess(nf, ns) ==
    << [i \in 1..nf |-> FreeAxis(i - 1)] \o [i \in 1..ns |-> SummationAxis(i - 1)] >>

WideShapes(nf, ns, first) ==
    << [i \in 1..(nf + ns) |-> IF i = 1 THEN first ELSE IntDim(2)] >>

ValueNames == {"u", "v", "w"}

GoodCells == {{v} : v \in ValueNames}

(* use_matrix candidates for n operands: every one-row matrix of singleton
   cells, two fused rows, and matrices with a cell of two values or of none. *)
UseMatrices(n) ==
    {<<row>> : row \in [1..n -> GoodCells]}
    \cup {<<[c \in 1..n |-> {"u"}], [c \in 1..n |-> IF c = 1 THEN {"w"} ELSE {"u"}]>>,
          <<[c \in 1..n |-> {"v"}], [c \in 1..n |-> IF c = n THEN {"u"} ELSE {"v"}]>>}
    \cup {<<[c \in 1..n |-> IF c = 1 THEN {"u", "v"} ELSE {"w"}]>>,
          <<[c \in 1..n |-> IF c = 1 THEN {} ELSE {"w"}]>>,
          <<[c \in 1..n |-> IF c = n THEN {"u", "v"} ELSE {"w"}],
            [c \in 1..n |-> IF c = 1 THEN {} ELSE {"w"}]>>,
          <<[c \in 1..n |-> IF c = n THEN {} ELSE {"w"}],
            [c \in 1..n |-> IF c = 1 THEN {"u", "v"} ELSE {"w"}]>>}

UsedValues(um) == UNION {UNION {um[r][c] : c \in 1..Len(um[r])} : r \in 1..Len(um)}

(* value_to_dtype candidates: the used values, optionally with one value that
   no cell uses. *)
DtypeMaps(um) ==
    {[v \in UsedValues(um) |-> "float64"],
     [v \in UsedValues(um) |-> IF v = "u" THEN "float32" ELSE "float64"],
     [v \in UsedValues(um) \cup {"unused"} |-> "float64"]}

DisplayName(ax) == (IF ax.kind = "free" THEN "i" ELSE "r") \o ToString(ax.i)

InputNames(acc) == [ax \in AxesOf(acc) |-> DisplayName(ax)]

EinsumsOver(acc, shapes) ==
    UNION {{FusedEinsum(shapes, v2d, acc, um, InputNames(acc)) : v2d \in DtypeMaps(um)} :
             um \in UseMatrices(Len(acc))}

DefaultUseMatrix(n) == << [c \in 1..n |-> {<<"u", "v", "w">>[c]}] >>

(* Every assignment of lengths to the indices of a template, under one use_matrix. *)
ShapeEinsums ==
    UNION {{FusedEinsum(ShapesOf(t.acc, lens), [v \in UsedValues(DefaultUseMatrix(Len(t.acc))) |-> "float64"],
                        t.acc, DefaultUseMatrix(Len(t.acc)), InputNames(t.acc)) :
              lens \in [AxesOf(t.acc) -> t.dims]} : t \in Templates}

(* Every use_matrix and value_to_dtype of a template, the first free axis of
   one length and all other indices of another. *)
ValueEinsums ==
    UNION {UNION {EinsumsOver(t.acc,
                              ShapesOf(t.acc, [ax \in AxesOf(t.acc) |->
                                                 IF ax = F0 THEN d[1] ELSE d[2]])) :
                    d \in {<<IntDim(128), IntDim(64)>>, <<IntDim(64), IntDim(64)>>,
                           <<SizeParam("P"), IntDim(64)>>, <<IntDim(128), SizeParam("P")>>}} :
             t \in Templates}

TemplateEinsums == ShapeEinsums \cup ValueEinsums

(* One-operand einsums with NLetters - 1 to MaxIndices indices. *)
WideEinsums ==
    UNION {{FusedEinsum(WideShapes(nf, n - nf, first), [v \in {"u"} |-> "float64"],
                        WideAccess(nf, n - nf), <<<<{"u"}>>>>,
                        InputNames(WideAccess(nf, n - nf))) :
              nf \in 0..n, first \in {IntDim(7), SizeParam("P")}} :
             n \in (NLetters - 1)..MaxIndices}

NormInputs == TemplateEinsums \cup WideEinsums

----------------------------------------------------------------------------
(* Renamings: consistent, injective renamings of value names, SizeParam names
   and index display names. *)

ValueRenamings ==
    {[v \in ValueNames \cup {"unused"} |-> v],
     [v \in ValueNames \cup {"unused"} |->
        IF v = "u" THEN "v" ELSE IF v = "v" THEN "u" ELSE v],
     [v \in ValueNames \cup {"unused"} |->
        IF v = "u" THEN "w" ELSE IF v = "w" THEN "v" ELSE IF v = "v" THEN "u" ELSE v],
     [v \in ValueNames \cup {"unused"} |-> IF v = "u" THEN "x" ELSE v]}

ParamNames == {"P", "N_a"}

ParamRenamings ==
    {[p \in ParamNames |-> p],
     [p \in ParamNames |-> IF p = "P" THEN "N_a" ELSE "P"],
     [p \in ParamNames |-> IF p = "P" THEN "N_c" ELSE p],
     [p \in ParamNames |-> IF p = "N_a" THEN "M" ELSE p]}

NameRenamings == {"keep", "prime"}

RenameDim(dim, fp) == IF dim.k = "param" THEN SizeParam(fp[dim.n]) ELSE dim

RenameEinsum(e, fv, fp, fn) ==
    FusedEinsum(
        [a \in 1..Len(e.arg_shapes) |->
           [d \in 1..Len(e.arg_shapes[a]) |-> RenameDim(e.arg_shapes[a][d], fp)]],
        [nv \in {fv[v] : v \in DOMAIN e.value_to_dtype} |->
           e.value_to_dtype[CHOOSE v \in DOMAIN e.value_to_dtype : fv[v] = nv]],
        e.access_descriptors,
        [r \in 1..Len(e.use_matrix) |->
           [c \in 1..Len(e.use_matrix[r]) |-> {fv[v] : v \in e.use_matrix[r][c]}]],
        [ax \in DOMAIN e.index_names |->
           IF fn = "keep" THEN e.index_names[ax] ELSE e.index_names[ax] \o "'"])

----------------------------------------------------------------------------
(* The normalizer applied to the inputs *)

NoCall == [pc |-> "idle"]

NormInit ==
    /\ nin \in NormInputs
    /\ nout = Raised("none")
    /\ nout2 = Raised("none")
    /\ niso = Raised("none")
    /\ nren = [values |-> FALSE, params |-> FALSE, names |-> FALSE]
    /\ npc = "input"
    /\ call = NoCall
    /\ db = <<>>
    /\ ncalls = 0
    /\ calls = <<>>
    /\ overlap = FALSE

CallNormalize ==
    /\ npc = "input"
    /\ nout' = normalize_einsum(nin)
    /\ npc' = "normalized"
    /\ UNCHANGED <<nin, nout2, niso, nren, recVars, raceVars>>

CallNormalizeAgain ==
    /\ npc = "normalized"
    /\ nout.status = "ok"
    /\ nout2' = normalize_einsum(nout.einsum)
    /\ npc' = "renormalized"
    /\ UNCHANGED <<nin, nout, niso, nren, recVars, raceVars>>

CallNormalizeRenamed ==
    /\ npc = "normalized"
    /\ \E fv \in ValueRenamings, fp \in ParamRenamings, fn \in NameRenamings :
         LET e2 == RenameEinsum(nin, fv, fp, fn)
         IN  /\ niso' = normalize_einsum(e2)
             /\ nren' = [values |-> e2.use_matrix # nin.use_matrix,
                         params |-> e2.arg_shapes # nin.arg_shapes,
                         names  |-> e2.index_names # nin.index_names]
    /\ npc' = "compared"
    /\ UNCHANGED <<nin, nout, nout2, recVars, raceVars>>

NormNext == CallNormalize \/ CallNormalizeAgain \/ CallNormalizeRenamed

SpecNorm == NormInit /\ [][NormNext]_vars

----------------------------------------------------------------------------
(* database.py: helpers of record() *)

None == [some |-> FALSE, text |-> <<>>]

Some(t) == [some |-> TRUE, text |-> t]

Exc(type, msg) == [type |-> type, msg |-> msg]

NoExc == Exc("", "")

(* What exec() of a transform source leaves in the namespace under the name
   `transform`, for the sources the model passes in. *)
SrcCallable ==
    <<"import loopy as lp", Newline, "transform = lambda t", ",", " *a: lp.tag_inames",
      "(", "t", ",", " ", Quote, "i:g.0", Quote, ")">>

SrcNotCallable == <<"transform = 1">>

SrcUnbound == <<"tranform = len">>

Exec(src) ==
    IF src = SrcCallable THEN [transform |-> "callable"]
    ELSE IF src = SrcNotCallable THEN [transform |-> "object"]
    ELSE [transform |-> "unbound"]

(* _get_clbl_from_string: the exception it raises, NoExc when it returns. *)
get_clbl_from_string(src) ==
    LET result_dict == Exec(src)
    IN  IF result_dict.transform = "unbound" THEN Exc("KeyError", "transform")
        ELSE IF result_dict.transform # "callable"
             THEN Exc("ValueError", "Provided transform source does not define callable named 'transform'.")
        ELSE NoExc

RECURSIVE JoinWords(_, _)
JoinWords(ws, sep) ==
    IF ws = <<>> THEN ""
    ELSE IF Len(ws) = 1 THEN ws[1]
    ELSE ws[1] \o sep \o JoinWords(Tail(ws), sep)

(* FusedEinsum.get_subscripts(): the operands' index letters, then the free
   indices, as in "ab,bc->ac". *)
get_subscripts(e) ==
    LET operand(a) == JoinWords([d \in 1..Len(e.access_descriptors[a]) |->
                                   e.index_names[e.access_descriptors[a][d]]], "")
    IN  JoinWords([a \in 1..Len(e.access_descriptors) |-> operand(a)], ",")
            \o "->" \o JoinWords([i \in 1..ndim(e) |-> e.index_names[FreeAxis(i - 1)]], "")

(* sorted(einsum.value_to_dtype.items()) of a normalized einsum: arg_0, arg_1, ... *)
SortedValues(e) ==
    LET n == Cardinality(DOMAIN e.value_to_dtype)
    IN  [k \in 1..n |-> ArgName(k - 1)]

get_value_to_dtype_for_db(e) ==
    "[" \o JoinWords([k \in 1..Len(SortedValues(e)) |->
                        SortedValues(e)[k] \o ": " \o e.value_to_dtype[SortedValues(e)[k]]], ", ")
        \o "]"

IsIntItem(it) == it.val.k = "int"

get_index_to_length_for_db(e) ==
    LET items == SelectSeq(index_to_dim_length(e), IsIntItem)
    IN  "[" \o JoinWords([k \in 1..Len(items) |->
                            e.index_names[items[k].key] \o ": " \o ToString(items[k].val.v)], ", ")
            \o "]"

(* One use row: "[[arg_0], [arg_1]]"; a cell lists its (one) value. *)
stringify_use_row(use_row) ==
    "[" \o JoinWords([c \in 1..Len(use_row) |->
                        "[" \o (CHOOSE v \in use_row[c] : TRUE) \o "]"], ", ") \o "]"

(* "[" + ",\n".join(rows) + "]" as a text: the separator's comma and newline
   are atoms. *)
get_use_matrix_for_db(e) ==
    LET n == Len(e.use_matrix)
    IN  [j \in 1..(3 * n) |->
           IF j = 1 THEN "["
           ELSE IF j = 3 * n THEN "]"
           ELSE IF (j - 2) % 3 = 0 THEN stringify_use_row(e.use_matrix[(j - 2) \div 3 + 1])
           ELSE IF (j - 2) % 3 = 1 THEN ","
           ELSE Newline]

get_cl_version_for_db(cl_device) == cl_device.vendor \o "-" \o cl_device.driver_version

get_cl_device_name_for_db(cl_device) ==
    Replace(Replace(Replace(Replace(Replace(Replace(cl_device.name,
        " ", <<"_">>), "-", <<"_">>), "@", <<"AT">>), "(", <<"_">>), ")", <<"_">>),
        ".", <<"DOT">>)

(* The columns of a device table. *)
NCols == 12

----------------------------------------------------------------------------
(* The environment of record(): devices, files, collaborators *)

DevTitan ==
    [name |-> <<"NVIDIA", " ", "TITAN", " ", "V">>,
     vendor |-> "NVIDIA Corporation", driver_version |-> "470.57"]

DevXeon ==
    [name |-> <<"Intel", "(", "R", ")", " ", "Xeon", " ", "E5", "-", "2650", " ", "@", " ",
                "2", ".", "20GHz">>,
     vendor |-> "Intel", driver_version |-> "18.1"]

(* cl_ctx.devices of the contexts record() is called with. *)
Contexts == {<<DevTitan>>, <<DevXeon>>, <<DevTitan, DevXeon>>}

(* The device names DEV_TO_PEAK_GFLOPS and DEV_TO_PEAK_BW have entries for. *)
PeakTableDevices == {DevTitan.name}

(* The files open() finds. *)
Files == (<<"t.py">> :> SrcCallable)

(* What timeit returns, as f"{runtime}" prints it. *)
Runtimes == {"2"}

(* What datetime.now(...).strftime(...) returns. *)
Timestamps == {"2022_03_01_101500", "2022_03_01_101501"}

(* device_code() of the generated kernel. *)
KernelText == <<"__kernel void loopy_kernel", "(", "...", ")", Newline, "{ ... }">>

OpInfoText == <<"float64: 0.5">>

----------------------------------------------------------------------------
(* The arguments record() is called with *)

MatmulAccess == << <<F0, S0>>, <<S0, F1>> >>

MatmulShapes == << <<IntDim(128), IntDim(35)>>, <<IntDim(35), IntDim(64)>> >>

RecEinsums ==
    {FusedEinsum(MatmulShapes, [v \in {"u", "v"} |-> "float64"], MatmulAccess,
                 << <<{"u"}, {"v"}>> >>, InputNames(MatmulAccess)),
     FusedEinsum(MatmulShapes, [v \in {"A", "B"} |-> "float64"], MatmulAccess,
                 << <<{"B"}, {"A"}>> >>, [ax \in AxesOf(MatmulAccess) |-> "x" \o ToString(ax.i)]),
     FusedEinsum(MatmulShapes, [v \in {"u", "v", "w"} |-> "float64"], MatmulAccess,
                 << <<{"u", "v"}, {"w"}>> >>, InputNames(MatmulAccess))}

TransformStrs == {None, Some(SrcCallable), Some(SrcNotCallable), Some(SrcUnbound)}

TransformPaths == {None, Some(<<"t.py">>)}

AuthorsInputs == {<<"kk">>}

(* remarks: plain; holding a quote; holding the text that closes the row and
   opens a second one. *)
RemarksInputs ==
    {<<"first try">>,
     <<"it", Quote, "s slow">>,
     <<"x", Quote, ")", ",", "(",
       Quote, "s", Quote, ",", Quote, "i", Quote, ",", Quote, "u", Quote, ",",
       Quote, "v", Quote, ",", Quote, "t", Quote, ",", "9", ",",
       Quote, "a", Quote, ",", Quote, "c", Quote, ",", Quote, "k", Quote, ",",
       Quote, "g", Quote, ",", Quote, "ts", Quote, ",", Quote, "y">>}

(* Number of record() calls made one after the other. *)
MaxCalls == 2

----------------------------------------------------------------------------
(* record() *)

IdleCall ==
    [pc |-> "idle",
     einsum |-> NoEinsum, devices |-> <<>>, transform_str |-> None,
     transform_file_path |-> None, authors |-> <<>>, remarks |-> <<>>,
     log_performance_data |-> FALSE,
     neinsum |-> NoEinsum, src |-> <<>>, runtime |-> "", device_name |-> <<>>,
     desc |-> <<>>, pending |-> <<>>,
     err |-> NoExc, events |-> <<>>, db0 |-> <<>>]

Fail(c, exc) == [c EXCEPT !.pc = "failed", !.err = exc]

Did(c, what) == [c EXCEPT !.events = Append(@, what)]

(* The exception normalize_einsum left record() with. *)
NormalizeExc(status) ==
    IF status = "AssertionError" THEN Exc("AssertionError", "")
    ELSE IF status = "NotImplementedError"
         THEN Exc("NotImplementedError", "Multi-values per use not yet supported.")
    ELSE IF status = "ValueError" THEN Exc("ValueError", "not enough values to unpack")
    ELSE Exc("KeyError", "value")

(* Mutant: only the absence of both transform arguments is rejected. *)
TransformConfigError_neither_only(transform_str, transform_file_path) ==
    IF ~transform_str.some /\ ~transform_file_path.some
    THEN Exc("ValueError", "Must pass either transform_str or transform_file_path.")
    ELSE Exc("", "")

(* Lines 175-181: the exception for the transform arguments, NoExc when
   exactly one of them is given. *)
TransformConfigError(transform_str, transform_file_path) ==
    IF transform_str.some /\ transform_file_path.some
    THEN Exc("ValueError", "Cannot pass in both transform_str and transform_file_path.")
    ELSE IF ~transform_str.some /\ ~transform_file_path.some
    THEN Exc("ValueError", "Must pass either transform_str or transform_file_path.")
    ELSE NoExc

(* Lines 183-189: read the file if no string was given, then execute the
   source and look up `transform`. *)
LoadTransform(c) ==
    IF ~c.transform_str.some /\ c.transform_file_path.text \notin DOMAIN Files
    THEN Fail(Did(c, "open"), Exc("FileNotFoundError", "No such file or directory"))
    ELSE LET src == IF c.transform_str.some THEN c.transform_str.text
                    ELSE Files[c.transform_file_path.text]
             c1 == IF c.transform_str.some THEN c ELSE Did(c, "open")
             c2 == Did([c1 EXCEPT !.src = src], "exec")
         IN  IF get_clbl_from_string(src) # NoExc THEN Fail(c2, get_clbl_from_string(src))
             ELSE [c2 EXCEPT !.pc = "timeit"]

(* Lines 168-189 of record(): normalize, check the arguments, load the transform. *)
Resolve(c) ==
    LET n == normalize_einsum(c.einsum)
        c1 == Did(c, "normalize_einsum")
    IN  IF n.status # "ok" THEN Fail(c1, NormalizeExc(n.status))
        ELSE IF TransformConfigError(c.transform_str, c.transform_file_path) # NoExc
             THEN Fail([c1 EXCEPT !.neinsum = n.einsum],
                       TransformConfigError(c.transform_str, c.transform_file_path))
        ELSE LoadTransform([c1 EXCEPT !.neinsum = n.einsum])

(* Lines 232-236 and 243: the description columns of the row. *)
Describe(c) ==
    [subscripts      |-> <<get_subscripts(c.neinsum)>>,
     index_to_length |-> <<get_index_to_length_for_db(c.neinsum)>>,
     transform_str   |-> Replace(Replace(c.src, Newline, <<"\\n">>), Quote, <<Quote, Quote>>),
     use_matrix      |-> Replace(get_use_matrix_for_db(c.neinsum), Newline, <<"\\n">>),
     value_to_dtype  |-> <<get_value_to_dtype_for_db(c.neinsum)>>,
     cl_kernel       |-> Replace(KernelText, Newline, <<"\\n">>),
     compiler_version |-> <<get_cl_version_for_db(c.devices[1])>>,
     op_info         |-> OpInfoText]

(* Lines 267-281: the VALUES clause of the INSERT statement. *)
InsertValues(c, timestamp) ==
    <<"(">> \o Quoted(c.desc.subscripts)
        \o <<",">> \o Quoted(c.desc.index_to_length)
        \o <<",">> \o Quoted(c.desc.use_matrix)
        \o <<",">> \o Quoted(c.desc.value_to_dtype)
        \o <<",">> \o Quoted(c.desc.transform_str)
        \o <<",">> \o <<c.runtime>>
        \o <<",">> \o Quoted(c.authors)
        \o <<",">> \o Quoted(c.desc.compiler_version)
        \o <<",">> \o Quoted(c.desc.cl_kernel)
        \o <<",">> \o Quoted(c.desc.op_info)
        \o <<",">> \o Quoted(<<timestamp>>)
        \o <<",">> \o Quoted(c.remarks)
        \o <<")">>

(* cursor.execute of the INSERT: the rows it adds to the connection's open
   transaction, or the error sqlite raises. *)
ExecuteInsert(c, timestamp) ==
    LET ann == SqlAnnotate(InsertValues(c, timestamp))
        rows == SqlRows(ann)
    IN  IF ~SqlWellFormed(ann)
        THEN Fail(Did(c, "insert"), Exc("OperationalError", "syntax error"))
        ELSE IF \E r \in 1..Len(rows) : Len(rows[r]) # NCols
        THEN Fail(Did(c, "insert"), Exc("OperationalError", "table has 12 columns"))
        ELSE [Did(c, "insert") EXCEPT !.pc = "commit", !.pending = rows]

RecInit ==
    /\ nin = NoEinsum
    /\ nout = Raised("none")
    /\ nout2 = Raised("none")
    /\ niso = Raised("none")
    /\ nren = [values |-> FALSE, params |-> FALSE, names |-> FALSE]
    /\ npc = "unused"
    /\ call = IdleCall
    /\ db = <<>>
    /\ ncalls = 0
    /\ calls = <<>>
    /\ overlap = FALSE

(* The steps of record() from timeit on, each as the set of outcomes it may
   have for the call c on the archive d: the call after the step and the
   archive after the step. *)
Outcome(c, d) == [call |-> c, db |-> d]

(* Lines 193-196: timeit returns a runtime or raises. *)
TimeitOutcomes(c, d) ==
    {Outcome([Did(c, "timeit") EXCEPT !.pc = "connect", !.runtime = rt], d) : rt \in Runtimes}
        \cup {Outcome(Fail(Did(c, "timeit"), Exc("RuntimeError", "timeit")), d)}

(* Lines 198-205: open the database, then look at the devices. *)
ConnectOutcomes(c, d) ==
    {Outcome(IF Len(c.devices) > 1
             THEN Fail(Did(c, "connect"),
                       Exc("NotImplementedError",
                           "CL contexts with multiple devices not supported"))
             ELSE [Did(c, "connect") EXCEPT
                      !.pc = "select",
                      !.device_name = get_cl_device_name_for_db(c.devices[1])],
             d)}

(* Mutant: the SELECT's answer is not looked at. *)
SelectOutcomes_always_absent(c, d) ==
    {Outcome([Did(c, "select") EXCEPT !.pc = "create"], d)}

(* Lines 209-212: SELECT name FROM sqlite_master ...; fetchall(). *)
SelectOutcomes(c, d) ==
    {Outcome([Did(c, "select") EXCEPT
                 !.pc = IF c.device_name \in DOMAIN d THEN "describe" ELSE "create"],
             d)}

(* Lines 214-228: CREATE TABLE, which sqlite commits at once and refuses for a
   table that exists. *)
CreateOutcomes(c, d) ==
    {IF c.device_name \in DOMAIN d
     THEN Outcome(Fail(Did(c, "create_table"),
                       Exc("OperationalError", "table already exists")), d)
     ELSE Outcome([Did(c, "create_table") EXCEPT !.pc = "describe"],
                  (c.device_name :> <<>>) @@ d)}

(* Lines 232-244: the description columns; generating the kernel may raise. *)
DescribeOutcomes(c, d) ==
    {Outcome([Did(c, "generate_code") EXCEPT
                 !.pc = IF c.log_performance_data THEN "log" ELSE "insert",
                 !.desc = Describe(c)], d),
     Outcome(Fail(Did(c, "generate_code"), Exc("LoopyError", "generate_code_v2")), d)}

(* Lines 248-253: _get_log_str_for_run raises ImportError without tabulate and
   KeyError for a device the peak tables do not know. *)
LogOutcomes(c, d) ==
    {Outcome(IF ~tabulate_installed
             THEN Fail(Did(c, "log"),
                       Exc("ImportError", "tabulate is need for pretty printing."))
             ELSE IF c.devices[1].name \notin PeakTableDevices
             THEN Fail(Did(c, "log"), Exc("KeyError", "device.name"))
             ELSE [Did(c, "log") EXCEPT !.pc = "insert"],
             d) : tabulate_installed \in BOOLEAN}

(* Lines 259-281: the timestamp and the INSERT. *)
InsertOutcomes(c, d) ==
    {Outcome(ExecuteInsert(c, timestamp), d) : timestamp \in Timestamps}

(* Line 283: conn.commit(). *)
CommitOutcomes(c, d) ==
    {Outcome([Did(c, "commit") EXCEPT !.pc = "done"],
             [d EXCEPT ![c.device_name] = @ \o c.pending])}

(* A caller invokes record(...). *)
RecordCall ==
    /\ call.pc \in {"idle", "done", "failed"}
    /\ ncalls < MaxCalls
    /\ \E e \in RecEinsums, ctx \in Contexts, ts \in TransformStrs, tp \in TransformPaths,
          au \in AuthorsInputs, rm \in RemarksInputs, lg \in BOOLEAN :
         call' = [IdleCall EXCEPT !.pc = "start", !.einsum = e, !.devices = ctx,
                                  !.transform_str = ts, !.transform_file_path = tp,
                                  !.authors = au, !.remarks = rm,
                                  !.log_performance_data = lg, !.db0 = db]
    /\ ncalls' = ncalls + 1
    /\ UNCHANGED <<db, normVars, raceVars>>

(* Lines 168-189. *)
ResolveTransform ==
    /\ call.pc = "start"
    /\ call' = Resolve(call)
    /\ UNCHANGED <<db, ncalls, normVars, raceVars>>

Timeit ==
    /\ call.pc = "timeit"
    /\ \E o \in TimeitOutcomes(call, db) : call' = o.call /\ db' = o.db
    /\ UNCHANGED <<ncalls, normVars, raceVars>>

Connect ==
    /\ call.pc = "connect"
    /\ \E o \in ConnectOutcomes(call, db) : call' = o.call /\ db' = o.db
    /\ UNCHANGED <<ncalls, normVars, raceVars>>

(* Mutant: the table is always created. *)
SelectTable_always_absent ==
    /\ call.pc = "select"
    /\ call' = [Did(call, "select") EXCEPT !.pc = "create"]
    /\ UNCHANGED <<db, ncalls, normVars, raceVars>>

SelectTable ==
    /\ call.pc = "select"
    /\ \E o \in SelectOutcomes(call, db) : call' = o.call /\ db' = o.db
    /\ UNCHANGED <<ncalls, normVars, raceVars>>

CreateTable ==
    /\ call.pc = "create"
    /\ \E o \in CreateOutcomes(call, db) : call' = o.call /\ db' = o.db
    /\ UNCHANGED <<ncalls, normVars, raceVars>>

DescribeRun ==
    /\ call.pc = "describe"
    /\ \E o \in DescribeOutcomes(call, db) : call' = o.call /\ db' = o.db
    /\ UNCHANGED <<ncalls, normVars, raceVars>>

LogPerformance ==
    /\ call.pc = "log"
    /\ \E o \in LogOutcomes(call, db) : call' = o.call /\ db' = o.db
    /\ UNCHANGED <<ncalls, normVars, raceVars>>

Insert ==
    /\ call.pc = "insert"
    /\ \E o \in InsertOutcomes(call, db) : call' = o.call /\ db' = o.db
    /\ UNCHANGED <<ncalls, normVars, raceVars>>

Commit ==
    /\ call.pc = "commit"
    /\ \E o \in CommitOutcomes(call, db) : call' = o.call /\ db' = o.db
    /\ UNCHANGED <<ncalls, normVars, raceVars>>

RecNext ==
    \/ RecordCall
    \/ ResolveTransform
    \/ Timeit
    \/ Connect
    \/ SelectTable
    \/ CreateTable
    \/ DescribeRun
    \/ LogPerformance
    \/ Insert
    \/ Commit

SpecRec == RecInit /\ [][RecNext]_vars

----------------------------------------------------------------------------
(* Two processes, each calling record() once on the same database file.
   Each process has its own connection.  A SELECT reads what is committed.
   CREATE TABLE is committed by sqlite as it executes.  An INSERT opens a
   transaction that holds the file's write lock until conn.commit(), the next
   statement of record(); a write of the other process waits for the lock. *)

Procs == {"p1", "p2"}

RaceEinsum ==
    FusedEinsum(MatmulShapes, [v \in {"u", "v"} |-> "float64"], MatmulAccess,
                << <<{"u"}, {"v"}>> >>, InputNames(MatmulAccess))

RaceRemarks == <<"first try">>

InFlight(c) == c.pc \notin {"idle", "done", "failed"}

(* The write lock is free for process p: no other process is between its
   INSERT and its commit. *)
LockFree(p) == \A q \in Procs \ {p} : calls[q].pc # "commit"

RaceInit ==
    /\ nin = NoEinsum
    /\ nout = Raised("none")
    /\ nout2 = Raised("none")
    /\ niso = Raised("none")
    /\ nren = [values |-> FALSE, params |-> FALSE, names |-> FALSE]
    /\ npc = "unused"
    /\ call = IdleCall
    /\ db = <<>>
    /\ ncalls = 0
    /\ calls = [p \in Procs |-> IdleCall]
    /\ overlap = FALSE

(* The step of process p whose outcomes are outs. *)
RaceStep(p, outs) ==
    /\ \E o \in outs : calls' = [calls EXCEPT ![p] = o.call] /\ db' = o.db
    /\ UNCHANGED <<overlap, call, ncalls, normVars>>

(* Process p invokes record(...). *)
RaceCall ==
    \E p \in Procs :
        /\ calls[p].pc = "idle"
        /\ \E ctx \in Contexts, lg \in BOOLEAN :
             calls' = [calls EXCEPT ![p] =
                          [IdleCall EXCEPT !.pc = "start", !.einsum = RaceEinsum,
                                           !.devices = ctx,
                                           !.transform_str = Some(SrcCallable),
                                           !.authors = <<"kk">>, !.remarks = RaceRemarks,
                                           !.log_performance_data = lg, !.db0 = db]]
        /\ overlap' = (overlap \/ \E q \in Procs \ {p} : InFlight(calls[q]))
        /\ UNCHANGED <<db, call, ncalls, normVars>>

RaceResolve ==
    \E p \in Procs :
        /\ calls[p].pc = "start"
        /\ RaceStep(p, {Outcome(Resolve(calls[p]), db)})

RaceTimeit ==
    \E p \in Procs : calls[p].pc = "timeit" /\ RaceStep(p, TimeitOutcomes(calls[p], db))

RaceConnect ==
    \E p \in Procs : calls[p].pc = "connect" /\ RaceStep(p, ConnectOutcomes(calls[p], db))

RaceSelect ==
    \E p \in Procs : calls[p].pc = "select" /\ RaceStep(p, SelectOutcomes(calls[p], db))

RaceCreate ==
    \E p \in Procs :
        /\ calls[p].pc = "create"
        /\ LockFree(p)
        /\ RaceStep(p, CreateOutcomes(calls[p], db))

RaceDescribe ==
    \E p \in Procs : calls[p].pc = "describe" /\ RaceStep(p, DescribeOutcomes(calls[p], db))

RaceLog ==
    \E p \in Procs : calls[p].pc = "log" /\ RaceStep(p, LogOutcomes(calls[p], db))

RaceInsert ==
    \E p \in Procs :
        /\ calls[p].pc = "insert"
        /\ LockFree(p)
        /\ RaceStep(p, InsertOutcomes(calls[p], db))

RaceCommit ==
    \E p \in Procs : calls[p].pc = "commit" /\ RaceStep(p, CommitOutcomes(calls[p], db))

RaceNext ==
    \/ RaceCall
    \/ RaceResolve
    \/ RaceTimeit
    \/ RaceConnect
    \/ RaceSelect
    \/ RaceCreate
    \/ RaceDescribe
    \/ RaceLog
    \/ RaceInsert
    \/ RaceCommit

SpecRace == RaceInit /\ [][RaceNext]_vars

----------------------------------------------------------------------------
(* Properties of normalize_einsum *)

Normalized == npc \in {"normalized", "renormalized", "compared"}

NIndices(e) == Cardinality(AxesOf(e.access_descriptors))

FreeAxesOf(e) == {ax \in AxesOf(e.access_descriptors) : ax.kind = "free"}

(* The positions (operand, axis) of an einsum, and those an index occupies. *)
Positions(e) ==
    UNION {{<<a, d>> : d \in 1..Len(e.arg_shapes[a])} : a \in 1..Len(e.arg_shapes)}

PositionsOf(e, ax) == {p \in Positions(e) : e.access_descriptors[p[1]][p[2]] = ax}

DimAt(e, p) == e.arg_shapes[p[1]][p[2]]

LengthOf(e, ax) == DimAt(e, CHOOSE p \in PositionsOf(e, ax) : TRUE)

(* C1: normalize_einsum is idempotent: whenever normalizing nin succeeded,
   normalizing the result again succeeds and returns the same einsum
   (arg_shapes, value_to_dtype, access_descriptors, use_matrix, index_names). *)
C1_Idempotent ==
    npc = "renormalized" => (nout2.status = "ok" /\ nout2.einsum = nout.einsum)

(* C2: an einsum and its copy under an injective renaming of value names,
   SizeParam names and index display names normalize to the same result. *)
C2_IsomorphismInvariance == npc = "compared" => niso = nout

C2_Witness ==
    /\ npc = "compared"
    /\ nren.values /\ nren.params /\ nren.names
    /\ nout.status = "ok"
    /\ Len(nin.use_matrix) = 2

(* The trigger condition in the words of the claim: every free axis has a
   literal length, there are at least two free axes, and exactly one free
   axis attains the maximum length. *)
UniqueLargestFreeAxis(e) ==
    /\ \A ax \in FreeAxesOf(e) : LengthOf(e, ax).k = "int"
    /\ Cardinality(FreeAxesOf(e)) >= 2
    /\ Cardinality({ax \in FreeAxesOf(e) :
                      \A bx \in FreeAxesOf(e) : LengthOf(e, bx).v <= LengthOf(e, ax).v}) = 1

LargestFreeAxis(e) ==
    CHOOSE ax \in FreeAxesOf(e) : \A bx \in FreeAxesOf(e) : LengthOf(e, bx).v <= LengthOf(e, ax).v

LiteralReplacedAt(e, o, p) == DimAt(e, p).k = "int" /\ DimAt(o, p).k = "param"

(* C7: normalize_einsum replaces a literal free-axis length by a SizeParam
   exactly when every free axis is literal, there are at least two free axes
   and one of them alone is the longest; then that axis becomes
   N_<its letter>, and otherwise no literal length is replaced at all. *)
C7_CollapseTrigger ==
    (Normalized /\ nout.status = "ok") =>
        LET e == nin
            o == nout.einsum
        IN  /\ (\E ax \in FreeAxesOf(e) : \E p \in PositionsOf(e, ax) : LiteralReplacedAt(e, o, p))
                   <=> UniqueLargestFreeAxis(e)
            /\ ~UniqueLargestFreeAxis(e) => \A p \in Positions(e) : ~LiteralReplacedAt(e, o, p)
            /\ UniqueLargestFreeAxis(e) =>
                   \A p \in PositionsOf(e, LargestFreeAxis(e)) :
                       DimAt(o, p) = SizeParam("N_" \o Letters[LargestFreeAxis(e).i + 1])

C7_Witness ==
    /\ Normalized
    /\ nin.access_descriptors = << <<F0, F1, F2>> >>
    /\ nin.arg_shapes = << <<IntDim(64), IntDim(128), IntDim(32)>> >>
    /\ nout.status = "ok"
    /\ nout.einsum.arg_shapes = << <<IntDim(64), SizeParam("N_b"), IntDim(32)>> >>

HasBadCell(e) == \E i \in 1..Len(UseCells(e)) : Cardinality(UseCells(e)[i]) # 1

(* C9: normalize_einsum fails with NotImplementedError ("multi-value cells")
   for every einsum, within the letter budget, that has a use_matrix cell
   holding two or more values or none. *)
C9_ExactlyOneValuePerCell ==
    (Normalized /\ HasBadCell(nin) /\ NIndices(nin) <= 26) =>
        nout.status = "NotImplementedError"

(* C10: normalize_einsum fails with the assertion (capacity) error for every
   einsum of more than 26 indices; with at most 26 the result names every
   index by a distinct lowercase letter, the free axes in ordinal order from
   'a', then the summation axes in ordinal order. *)
C10_IndexBudget ==
    Normalized =>
        /\ NIndices(nin) > 26 => nout.status = "AssertionError"
        /\ NIndices(nin) <= 26 => nout.status # "AssertionError"
        /\ nout.status = "ok" =>
             LET names == nout.einsum.index_names
                 axes  == AxesOf(nin.access_descriptors)
             IN  /\ DOMAIN names = axes
                 /\ \A ax \in axes :
                      names[ax] = Letters[IF ax.kind = "free" THEN ax.i + 1
                                          ELSE Cardinality(FreeAxesOf(nin)) + ax.i + 1]
                 /\ \A ax \in axes : \A bx \in axes : names[ax] = names[bx] => ax = bx

C10_Witness ==
    /\ Normalized
    /\ NIndices(nin) = 27
    /\ Cardinality(FreeAxesOf(nin)) = 20
    /\ nout.status = "AssertionError"

(* C11: when the collapsing rule fires, the only positions of arg_shapes whose
   literal length is replaced are those of the strictly largest free axis; the
   literal length at every other position, a summation axis of the same
   length included, is in the result as it was in the input. *)
C11_CollapseScope ==
    (Normalized /\ nout.status = "ok" /\ UniqueLargestFreeAxis(nin)) =>
        \A p \in Positions(nin) \ PositionsOf(nin, LargestFreeAxis(nin)) :
            DimAt(nin, p).k = "int" => DimAt(nout.einsum, p) = DimAt(nin, p)

----------------------------------------------------------------------------
(* Properties of record() *)

Happened(what) == \E k \in 1..Len(call.events) : call.events[k] = what

Returned == call.pc \in {"done", "failed"}

(* The rows the call found in a table when it began. *)
RowsBefore(t) == IF t \in DOMAIN call.db0 THEN call.db0[t] ELSE <<>>

(* C3: a record() call whose context holds two or more devices never returns
   normally, and at no point of the call has timeit been started, the database
   been connected to, a table been created or a row been added. *)
C3_MultiDeviceRejectedFirst ==
    Len(call.devices) >= 2 =>
        /\ call.pc # "done"
        /\ ~Happened("timeit")
        /\ ~Happened("connect")
        /\ ~Happened("create_table")
        /\ ~Happened("insert")
        /\ db = call.db0

BothOrNeither ==
    /\ call.pc # "idle"
    /\ call.transform_str.some <=> call.transform_file_path.some

ConfigMessage ==
    IF call.transform_str.some
    THEN "Cannot pass in both transform_str and transform_file_path."
    ELSE "Must pass either transform_str or transform_file_path."

OnlyNormalized == \A k \in 1..Len(call.events) : call.events[k] = "normalize_einsum"

(* C4, as the code has it: a record() call with both transform_str and
   transform_file_path set, or with neither, fails; the failure is the
   configuration ValueError when normalize_einsum accepts the einsum and
   normalize_einsum's own error otherwise; in both cases nothing but the
   normalization has run: no source was read or executed, timeit was not
   called and the database is as the call found it, whatever the devices. *)
C4_ConfigErrorAfterNormalization ==
    BothOrNeither =>
        /\ call.pc \in {"start", "failed"}
        /\ OnlyNormalized
        /\ db = call.db0
        /\ call.pc = "failed" =>
             LET n == normalize_einsum(call.einsum)
             IN  IF n.status = "ok"
                 THEN call.err = Exc("ValueError", ConfigMessage)
                 ELSE call.err.type = n.status

C4_Witness ==
    /\ call.pc = "failed"
    /\ call.transform_str.some
    /\ call.transform_file_path.some
    /\ Len(call.devices) = 2
    /\ call.err = Exc("ValueError", "Cannot pass in both transform_str and transform_file_path.")
    /\ call.events = <<"normalize_einsum">>

(* C4 as stated: whatever the einsum is, a call with both or neither transform
   argument fails with the configuration error before anything else is done. *)
C4_ConfigErrorWhateverEinsum ==
    (BothOrNeither /\ Returned) =>
        /\ call.pc = "failed"
        /\ call.err = Exc("ValueError", ConfigMessage)
        /\ ~Happened("exec")
        /\ ~Happened("timeit")
        /\ db = call.db0

(* C5: when a record() call has returned normally, the table of its device
   holds the rows it held when the call began followed by exactly one new row,
   and every other table is as it was. *)
C5_AppendOnly ==
    call.pc = "done" =>
        LET t == call.device_name
        IN  /\ t \in DOMAIN db
            /\ Len(db[t]) = Len(RowsBefore(t)) + 1
            /\ SubSeq(db[t], 1, Len(RowsBefore(t))) = RowsBefore(t)
            /\ \A u \in DOMAIN db \ {t} : u \in DOMAIN call.db0 /\ db[u] = call.db0[u]

(* C6: a failure of the performance-log step never ends a record() call: no
   call is left failed with the log step as the last thing it did. *)
C6_LogNeverAborts ==
    ~(/\ call.pc = "failed"
      /\ call.log_performance_data
      /\ call.events[Len(call.events)] = "log")

(* C8: when the executed transform source leaves `transform` unbound or bound
   to something that is not callable, record() fails with the configuration
   ValueError in both cases, timeit is not called and the database is as the
   call found it. *)
C8_TransformSourceContract ==
    (Returned /\ Happened("exec") /\ Exec(call.src).transform # "callable") =>
        /\ call.pc = "failed"
        /\ call.err.type = "ValueError"
        /\ ~Happened("timeit")
        /\ ~Happened("connect")
        /\ db = call.db0

(* C12: in a sequence of record() calls made one after the other, CREATE TABLE
   is issued only by a call that found no table of its device and never fails
   on a table that exists; once a call is past that step the table is there;
   a call that fails leaves every stored row as it was, and if it had created
   the table, leaves the table present and empty; a call that found the table
   and returns normally has not created it again and has appended its rows to
   the rows it found. *)
C12_LazyTableCreation ==
    LET t == call.device_name
        existed == t \in DOMAIN call.db0
    IN  /\ Happened("create_table") => ~existed
        /\ call.err # Exc("OperationalError", "table already exists")
        /\ call.pc \in {"describe", "log", "insert", "commit", "done"} => t \in DOMAIN db
        /\ call.pc = "failed" =>
             /\ \A u \in DOMAIN call.db0 : u \in DOMAIN db /\ db[u] = call.db0[u]
             /\ Happened("create_table") => (t \in DOMAIN db /\ db[t] = <<>>)
             /\ DOMAIN db \subseteq DOMAIN call.db0 \cup {t}
        /\ (call.pc = "done" /\ existed) =>
             /\ ~Happened("create_table")
             /\ Len(call.pending) >= 1
             /\ db[t] = call.db0[t] \o call.pending

(* A retry after a failure that left the table empty: the call found the empty
   table, did not create it, and its row is the table's first. *)
C12_Witness ==
    /\ ncalls = 2
    /\ call.pc = "done"
    /\ call.device_name \in DOMAIN call.db0
    /\ call.db0[call.device_name] = <<>>
    /\ ~Happened("create_table")
    /\ Len(db[call.device_name]) = 1

----------------------------------------------------------------------------
(* Properties of concurrent record() calls *)

HappenedIn(c, what) == \E k \in 1..Len(c.events) : c.events[k] = what

CreateFailed(c) == c.err = Exc("OperationalError", "table already exists")

(* The call saw no table of its device and issued CREATE TABLE. *)
SawAbsentAndCreated(c) ==
    /\ HappenedIn(c, "select")
    /\ HappenedIn(c, "create_table")
    /\ c.device_name \notin DOMAIN c.db0

(* C13: a record() call fails on CREATE TABLE only when the two calls ran
   concurrently, and then both calls had seen the device's table absent and
   both had issued CREATE TABLE, the other one with success; calls made one
   after the other never fail on table creation.  That the failing
   interleaving exists is the reachability of C13_Witness. *)
C13_TableCreationRace ==
    \A p \in Procs :
        CreateFailed(calls[p]) =>
            /\ overlap
            /\ SawAbsentAndCreated(calls[p])
            /\ \E q \in Procs \ {p} :
                 /\ calls[q].device_name = calls[p].device_name
                 /\ SawAbsentAndCreated(calls[q])
                 /\ ~CreateFailed(calls[q])
                 /\ calls[p].device_name \in DOMAIN db

(* Both calls saw the table absent, both issued CREATE TABLE; one has stored
   its row and returned, the other has failed on table creation. *)
C13_Witness ==
    /\ overlap
    /\ calls["p1"].pc = "done"
    /\ calls["p2"].pc = "failed"
    /\ CreateFailed(calls["p2"])
    /\ SawAbsentAndCreated(calls["p1"])
    /\ SawAbsentAndCreated(calls["p2"])
    /\ Len(db[calls["p1"].device_name]) = 1

====
